---- MODULE Spec2Model ----
(***************************************************************************)
(* A model of the ScriptPolish server: the topic classifier, the example   *)
(* selector, the quality score and the /polish, /analyze-voice and         *)
(* /save-correction handlers of its revisions (V3 in src/server.js; V5,    *)
(* V3.1 and V4.1 in src/unnamed/part_000).                                 *)
(*                                                                         *)
(* Texts.  A script is a sequence of one-character strings.  The content   *)
(* of a completion is a sequence of pieces, a piece being white space or a *)
(* run of other characters; Str joins the pieces into one string.          *)
(***************************************************************************)
EXTENDS Integers, Sequences, FiniteSets, TLC

VARIABLES
  voice_examples,   \* table voice_examples: a sequence of rows, id = position
  polish_history,   \* table polish_history: a sequence of rows, id = position
  profiles,         \* table profiles: user id -> row, or NULL when no row
  clock,            \* the time the next write is stamped with
  req,              \* the requests in flight: slot -> the handler's locals
  topicCall,        \* one call of analyzeTopicCategory: argument and result
  selectCall,       \* one call of selectBestExamples: arguments and result
  scoreCall         \* one evaluation of the quality score: inputs and result

vars == <<voice_examples, polish_history, profiles, clock, req,
          topicCall, selectCall, scoreCall>>

\* JavaScript's null and undefined.  Optional values are records, so that a
\* present value and an absent one can be compared.
NULL == [tag |-> "null"]
\* What an expression yields when it throws.
THROWN == [tag |-> "thrown"]
\* The result of a call that has not returned yet.
PENDING == "pending"

----------------------------------------------------------------------------
(* Bounds of the model.                                                    *)

\* Longest completion content, in pieces.
MaxPieces == 3
\* Longest of the exhaustively enumerated scripts, in characters.
MaxScriptLen == 3
\* Longest of the scripts long enough for a score strictly between 0 and 100.
MaxLongLen == 12
\* Most rows of voice_examples in the selector's initial states.
MaxExamples == 6

----------------------------------------------------------------------------
(* Texts.                                                                  *)

WhiteSpace == {" ", "\n"}

RECURSIVE Str(_)
\* The JavaScript string a sequence of pieces stands for.
Str(t) == IF t = <<>> THEN "" ELSE Head(t) \o Str(Tail(t))

RECURSIVE TrimStart(_)
TrimStart(t) ==
  IF t # <<>> /\ Head(t) \in WhiteSpace THEN TrimStart(Tail(t)) ELSE t

RECURSIVE TrimEnd(_)
TrimEnd(t) ==
  IF t # <<>> /\ t[Len(t)] \in WhiteSpace
  THEN TrimEnd(SubSeq(t, 1, Len(t) - 1)) ELSE t

\* String.prototype.trim: white space removed at both ends, kept inside.
Trim(t) == TrimEnd(TrimStart(t))

\* All sequences over S of length lo..hi.
SeqsOf(S, lo, hi) == UNION {[1..n -> S] : n \in lo..hi}

----------------------------------------------------------------------------
(* The completion provider: groq.chat.completions.create.  A call either   *)
(* rejects, or resolves to a completion whose choices may be empty and     *)
(* whose first message may carry null instead of text.                     *)

Rejected == [kind |-> "rejected"]
NoChoice == [kind |-> "nochoice"]
NullContent == [kind |-> "nullcontent"]
Text(t) == [kind |-> "text", content |-> t]

\* chatCompletion.choices[0]?.message?.content.trim() : the trimmed text,
\* NULL when the optional chain yields undefined (no first choice), THROWN
\* when .trim() is applied to a null content (a TypeError).
TrimmedContent(c) ==
  CASE c.kind = "nochoice" -> NULL
    [] c.kind = "nullcontent" -> THROWN
    [] c.kind = "text" -> [tag |-> "string", s |-> Trim(c.content)]

\* JavaScript truthiness of the value TrimmedContent yields.
Truthy(v) == v.tag = "string" /\ v.s # <<>>

----------------------------------------------------------------------------
(* Helper 1: analyzeTopicCategory.                                         *)

predefinedCategories ==
  <<"Productivity", "Tech", "Finance", "Student Advice",
    "Health", "Relationships", "Creator Economy", "Philosophy", "Other">>

Categories == {predefinedCategories[i] : i \in DOMAIN predefinedCategories}

\* Whether the try block throws, given the outcome of the completion call.
ClassifyThrows(c) == c.kind = "rejected" \/ TrimmedContent(c) = THROWN

\* The value of `category` after line 52 (the try block did not throw).
ClassifyCategory(c) ==
  IF Truthy(TrimmedContent(c)) THEN Str(TrimmedContent(c).s) ELSE "Other"

\* The classifier without its catch block: the failure escapes.
analyzeTopicCategory_nocatch(c) ==
  IF ClassifyThrows(c) THEN "thrown"
  ELSE IF ClassifyCategory(c) \in Categories THEN ClassifyCategory(c)
       ELSE "Other"

analyzeTopicCategory(c) ==
  IF ClassifyThrows(c) THEN "Other"
  ELSE IF ClassifyCategory(c) \in Categories THEN ClassifyCategory(c)
       ELSE "Other"

\* The pieces the classifier's completions are made of.
TopicPieces ==
  {" ", "\n", "Tech", "Student", "Advice", "Other", "Cooking", "tech"}

TopicCompletions ==
  {Rejected, NoChoice, NullContent}
    \cup {Text(t) : t \in SeqsOf(TopicPieces, 0, MaxPieces)}

----------------------------------------------------------------------------
(* The identities of the model.                                            *)

Users == {"u1", "u2"}
\* The requests the server handles concurrently.
Slots == {"r1", "r2"}

\* A table row that does not exist, a call not made, a slot with no request.
NoRow == [tag |-> "norow"]
NoCall == [tag |-> "nocall"]
Idle == [pc |-> "idle", kind |-> "none"]

\* The parts of the state a specification does not use stay as they are here.
StoreEmpty ==
  /\ voice_examples = <<>>
  /\ polish_history = <<>>
  /\ profiles = [u \in Users |-> NoRow]
  /\ clock = 1
NoRequests == req = [s \in Slots |-> Idle]

----------------------------------------------------------------------------
(* SpecTopic: analyzeTopicCategory applied to every completion outcome.    *)

InitTopic ==
  /\ StoreEmpty /\ NoRequests
  /\ topicCall \in {[completion |-> c, category |-> PENDING] :
                       c \in TopicCompletions}
  /\ selectCall = NoCall
  /\ scoreCall = NoCall

AnalyzeTopic ==
  /\ topicCall # NoCall
  /\ topicCall.category = PENDING
  /\ topicCall' = [topicCall EXCEPT
                     !.category = analyzeTopicCategory(topicCall.completion)]
  /\ UNCHANGED <<voice_examples, polish_history, profiles, clock, req,
                 selectCall, scoreCall>>

NextTopic == AnalyzeTopic

SpecTopic == InitTopic /\ [][NextTopic]_vars

\* C1: analyzeTopicCategory returns one of the nine fixed labels for every
\* outcome of the completion call (any text, an empty or missing completion,
\* a failed call), a failed call yields Other, and no failure escapes.
C1_TopicInLabelSet ==
  (topicCall # NoCall /\ topicCall.category # PENDING) =>
    /\ topicCall.category \in Categories
    /\ Cardinality(Categories) = 9
    /\ ClassifyThrows(topicCall.completion) => topicCall.category = "Other"

\* A failed completion call has been classified as Other.
C1_Witness ==
  /\ topicCall # NoCall
  /\ topicCall.completion.kind = "rejected"
  /\ topicCall.category = "Other"

----------------------------------------------------------------------------
(* The quality score of /save-correction.                                  *)

Min2(a, b) == IF a <= b THEN a ELSE b

RECURSIVE LevRow(_, _, _, _)
\* One row of the edit-distance table: prev is the row of the prefix of a
\* before ch, acc the cells of the new row computed so far (column 0 first).
LevRow(prev, ch, b, acc) ==
  IF Len(acc) = Len(b) + 1 THEN acc
  ELSE LET j == Len(acc)
           sub == prev[j] + (IF ch = b[j] THEN 0 ELSE 1)
       IN LevRow(prev, ch, b,
                 Append(acc, Min2(Min2(prev[j + 1] + 1, acc[j] + 1), sub)))

RECURSIVE LevFrom(_, _, _, _)
LevFrom(a, b, i, row) ==
  IF i > Len(a) THEN row[Len(b) + 1]
  ELSE LevFrom(a, b, i + 1, LevRow(row, a[i], b, <<row[1] + 1>>))

\* levenshtein(a, b): the least number of single-character insertions,
\* deletions and substitutions that turn a into b.
levenshtein(a, b) == LevFrom(a, b, 1, [j \in 1..(Len(b) + 1) |-> j - 1])

\* Math.round of the non-negative rational num / den: halves round up.
MathRound(num, den) == (2 * num + den) \div (2 * den)

\* The score without Math.min(100, ...).
qualityScore_nocap(aiPolishedScript, userFinalScript) ==
  MathRound(levenshtein(aiPolishedScript, userFinalScript) * 1000,
            Len(aiPolishedScript))

\* Math.min(100, Math.round((editDistance / aiPolishedScript.length) * 1000))
qualityScore(aiPolishedScript, userFinalScript) ==
  Min2(100, MathRound(levenshtein(aiPolishedScript, userFinalScript) * 1000,
                      Len(aiPolishedScript)))

Rep(ch, n) == [i \in 1..n |-> ch]

\* The scripts of the score's inputs: every script over two characters up to
\* MaxScriptLen (the empty one included), and longer ones one edit apart.
ShortScripts == SeqsOf({"a", "b"}, 0, MaxScriptLen)
LongScripts ==
  {Rep("a", n) : n \in 10..MaxLongLen}
    \cup {Rep("a", n - 1) \o <<"b">> : n \in 10..MaxLongLen}
ScoreScripts == ShortScripts \cup LongScripts

----------------------------------------------------------------------------
(* SpecScore: the score of every pair of scripts that passes the handler's *)
(* check of its inputs.                                                    *)

InitScore ==
  /\ StoreEmpty /\ NoRequests
  /\ topicCall = NoCall
  /\ selectCall = NoCall
  /\ scoreCall \in {[aiPolishedScript |-> a, userFinalScript |-> f,
                      qualityScore |-> -1] :
                       a \in ScoreScripts, f \in ScoreScripts}

\* Lines 194-202 of /save-correction: an empty script is answered with 400
\* before any score is computed.
ComputeScore ==
  /\ scoreCall # NoCall
  /\ scoreCall.qualityScore = -1
  /\ scoreCall.aiPolishedScript # <<>>
  /\ scoreCall.userFinalScript # <<>>
  /\ scoreCall' = [scoreCall EXCEPT !.qualityScore =
                     qualityScore(scoreCall.aiPolishedScript,
                                  scoreCall.userFinalScript)]
  /\ UNCHANGED <<voice_examples, polish_history, profiles, clock, req,
                 topicCall, selectCall>>

NextScore == ComputeScore

SpecScore == InitScore /\ [][NextScore]_vars

ScoreDone == scoreCall # NoCall /\ scoreCall.qualityScore # -1

\* C5: for every pair of non-empty scripts the quality score is an integer
\* in [0, 100], and it is 0 when the final script equals the AI's.
C5_ScoreBounded ==
  ScoreDone =>
    /\ scoreCall.aiPolishedScript # <<>> /\ scoreCall.userFinalScript # <<>>
    /\ scoreCall.qualityScore \in 0..100
    /\ scoreCall.userFinalScript = scoreCall.aiPolishedScript
         => scoreCall.qualityScore = 0

\* A score has been capped: the edit distance is more than a tenth of the
\* AI script's length and the score is 100.
C5_Witness ==
  /\ ScoreDone
  /\ levenshtein(scoreCall.aiPolishedScript, scoreCall.userFinalScript) * 10
       > Len(scoreCall.aiPolishedScript)
  /\ scoreCall.qualityScore = 100

----------------------------------------------------------------------------
(* Helper 2: selectBestExamples.                                           *)

\* .limit(5)
SelectLimit == 5

\* The order of the stored labels as text: .order('topic_category') compares
\* the column's values, not whether they equal the requested topic.
CategoryCollation ==
  <<"Creator Economy", "Finance", "Health", "Other", "Philosophy",
    "Productivity", "Relationships", "Student Advice", "Tech">>

CollationRank(t) == CHOOSE i \in DOMAIN CategoryCollation : CategoryCollation[i] = t

\* Row a sorts strictly before row b under the three .order() keys:
\* topic_category (ascending iff the requested topic is not Other), then
\* quality_score descending, then created_at descending.
SortsBefore(a, b, ascending) ==
  \/ /\ a.topic_category # b.topic_category
     /\ IF ascending
        THEN CollationRank(a.topic_category) < CollationRank(b.topic_category)
        ELSE CollationRank(a.topic_category) > CollationRank(b.topic_category)
  \/ /\ a.topic_category = b.topic_category
     /\ a.quality_score > b.quality_score
  \/ /\ a.topic_category = b.topic_category
     /\ a.quality_score = b.quality_score
     /\ a.created_at > b.created_at

RECURSIVE OrderedPrefixes(_, _, _, _)
\* Every way the database may return the first n of the rows ids of table in
\* the order above: rows equal on all three keys come in any order.
OrderedPrefixes(table, ids, ascending, n) ==
  IF n = 0 \/ ids = {} THEN {<<>>}
  ELSE UNION {
    {<<i>> \o t : t \in OrderedPrefixes(table, ids \ {i}, ascending, n - 1)} :
      i \in {k \in ids :
               \A j \in ids : ~SortsBefore(table[j], table[k], ascending)}}

\* The query without .limit(5).
SelectQuery_nolimit(table, userId, topic) ==
  OrderedPrefixes(table, {i \in DOMAIN table : table[i].user_id = userId},
                  topic # "Other", Len(table))

\* The rows (by id) the query of lines 69-76 may return.
SelectQuery(table, userId, topic) ==
  OrderedPrefixes(table, {i \in DOMAIN table : table[i].user_id = userId},
                  topic # "Other", SelectLimit)

\* What the await of lines 69-76 may yield: an error, or the script_text
\* column of the rows found (rows: their ids, which the code does not read).
SelectReplies(table, userId, topic) ==
  {[error |-> [message |-> "retrieval failed"], rows |-> <<>>, data |-> <<>>]}
    \cup {[error |-> NULL, rows |-> r,
           data |-> [k \in DOMAIN r |-> [script_text |-> table[r[k]].script_text]]] :
             r \in SelectQuery(table, userId, topic)}

\* Lines 78-83: the empty list on error, else the rows' script texts.
selectBestExamples(reply) ==
  IF reply.error # NULL THEN <<>>
  ELSE [k \in DOMAIN reply.data |-> reply.data[k].script_text]

\* The rows the selector's initial tables are filled from (created_at is
\* given by the position: two inserts share a timestamp).
ExamplePalette ==
  {[user_id |-> "u1", script_text |-> <<"a", "b">>,
    topic_category |-> "Tech", quality_score |-> 40],
   [user_id |-> "u1", script_text |-> <<"a", "b", "c">>,
    topic_category |-> "Tech", quality_score |-> 90],
   [user_id |-> "u1", script_text |-> <<"b">>,
    topic_category |-> "Finance", quality_score |-> 70],
   [user_id |-> "u1", script_text |-> <<"b", "a">>,
    topic_category |-> "Other", quality_score |-> 90],
   [user_id |-> "u2", script_text |-> <<"a", "b">>,
    topic_category |-> "Tech", quality_score |-> 100]}

ExampleTables ==
  {[i \in DOMAIN f |->
      [user_id |-> f[i].user_id, script_text |-> f[i].script_text,
       topic_category |-> f[i].topic_category,
       quality_score |-> f[i].quality_score,
       created_at |-> (i + 1) \div 2]] :
     f \in UNION {[1..n -> ExamplePalette] : n \in 0..MaxExamples}}

\* The topics the selector is asked for: one no stored row has among them.
SelectTopics == {"Tech", "Other", "Health"}

----------------------------------------------------------------------------
(* SpecSelect: selectBestExamples over every table of ExampleTables.       *)

InitSelect ==
  /\ voice_examples \in ExampleTables
  /\ polish_history = <<>>
  /\ profiles = [u \in Users |-> NoRow]
  /\ clock = 1
  /\ NoRequests
  /\ topicCall = NoCall
  /\ selectCall = NoCall
  /\ scoreCall = NoCall

SelectBestExamples ==
  /\ selectCall = NoCall
  /\ \E userId \in Users, topic \in SelectTopics :
       \E reply \in SelectReplies(voice_examples, userId, topic) :
         selectCall' = [userId |-> userId, topic |-> topic, reply |-> reply,
                        result |-> selectBestExamples(reply)]
  /\ UNCHANGED <<voice_examples, polish_history, profiles, clock, req,
                 topicCall, scoreCall>>

NextSelect == SelectBestExamples

SpecSelect == InitSelect /\ [][NextSelect]_vars

SelectDone == selectCall # NoCall
\* The stored rows the reply of the finished call was read from.
SelectedRow(k) == voice_examples[selectCall.reply.rows[k]]
OwnedBy(userId) == {i \in DOMAIN voice_examples : voice_examples[i].user_id = userId}

\* C2: for a requested topic other than Other, every returned example of the
\* requested topic precedes every returned example of another topic; within
\* one topic qualityScore is non-increasing; within one topic and quality
\* createdAt is non-increasing.
C2_MatchingTopicFirst ==
  (SelectDone /\ selectCall.topic # "Other" /\ selectCall.reply.error = NULL) =>
    \A k, l \in DOMAIN selectCall.reply.rows :
      k < l =>
        /\ ~(/\ SelectedRow(k).topic_category # selectCall.topic
             /\ SelectedRow(l).topic_category = selectCall.topic)
        /\ SelectedRow(k).topic_category = SelectedRow(l).topic_category =>
             /\ SelectedRow(k).quality_score >= SelectedRow(l).quality_score
             /\ SelectedRow(k).quality_score = SelectedRow(l).quality_score =>
                  SelectedRow(k).created_at >= SelectedRow(l).created_at

\* C3: for the requested topic Other the returned list is the user's examples
\* by descending qualityScore, then descending createdAt, cut to 5, whatever
\* their stored topics.
C3_OtherIgnoresTopic ==
  (SelectDone /\ selectCall.topic = "Other" /\ selectCall.reply.error = NULL) =>
    LET rows == selectCall.reply.rows
        Better(a, b) ==
          \/ a.quality_score > b.quality_score
          \/ a.quality_score = b.quality_score /\ a.created_at > b.created_at
    IN /\ \A k, l \in DOMAIN rows :
            k < l => ~Better(SelectedRow(l), SelectedRow(k))
       /\ \A k \in DOMAIN rows :
            \A i \in OwnedBy(selectCall.userId) \ {rows[j] : j \in DOMAIN rows} :
              ~Better(voice_examples[i], SelectedRow(k))

\* C4: selectBestExamples returns at most 5 script texts, each the text of a
\* distinct stored example of the requested user, and returns the empty list
\* when the user has no example and when the retrieval fails.
C4_AtMostFiveOwned ==
  SelectDone =>
    LET rows == selectCall.reply.rows
        result == selectCall.result
    IN /\ Len(result) <= 5
       /\ selectCall.reply.error # NULL => result = <<>>
       /\ OwnedBy(selectCall.userId) = {} => result = <<>>
       /\ selectCall.reply.error = NULL =>
            /\ Len(result) = Min2(5, Cardinality(OwnedBy(selectCall.userId)))
            /\ DOMAIN result = DOMAIN rows
            /\ \A k \in DOMAIN result :
                 /\ rows[k] \in OwnedBy(selectCall.userId)
                 /\ result[k] = SelectedRow(k).script_text
            /\ \A k, l \in DOMAIN rows : k # l => rows[k] # rows[l]

\* A user with more than 5 stored examples got exactly 5 of them.
C4_Witness ==
  /\ SelectDone
  /\ selectCall.reply.error = NULL
  /\ Cardinality(OwnedBy(selectCall.userId)) > 5
  /\ Len(selectCall.result) = 5

----------------------------------------------------------------------------
(* Voice-pattern documents: the JSON values the profiles table holds.      *)

Sections ==
  {"openings", "transitions", "sentence_structure", "emphasis_techniques",
   "vocabulary", "pacing", "conclusions", "personality_markers"}

\* {"voice_patterns": {...}} with the eight sections, in two variants.
DocA == [voice_patterns |-> [k \in Sections |-> "A"]]
DocB == [voice_patterns |-> [k \in Sections |-> "B"]]
\* The same without the section pacing.
DocPartial == [voice_patterns |-> [k \in Sections \ {"pacing"} |-> "B"]]
\* An object without the voice_patterns key.
DocOther == [note |-> "none"]

\* The sections the V4.1 prompt reads fields of (lines 632-658).
AssembledSections == Sections \ {"conclusions"}

\* Whether building the prompt throws.  V5 only stringifies
\* profile.voice_patterns?.voice_patterns || {}; V4.1 dereferences
\* voicePatterns.voice_patterns.<section>.<field> for seven sections.
AssembleThrows(ver, voicePatterns) ==
  /\ ver = "V41"
  /\ \/ "voice_patterns" \notin DOMAIN voicePatterns
     \/ ~(AssembledSections \subseteq DOMAIN voicePatterns.voice_patterns)

\* A row of profiles; patterns_extracted_at 0 stands for null.
ProfileRow(vp, at) == [voice_patterns |-> vp, patterns_extracted_at |-> at]

\* .from('profiles').select('voice_patterns').eq('id', userId).single():
\* an error when the read fails or finds no row, else the row.
ProfileReplies(table, userId) ==
  {[error |-> [message |-> "profile read failed"], data |-> NULL]}
    \cup (IF table[userId] = NoRow THEN {}
          ELSE {[error |-> NULL,
                 data |-> [voice_patterns |-> table[userId].voice_patterns]]})

\* The check that looks at the error only.
ProfileMissing_erroronly(reply) == reply.error # NULL

\* profileError || !profile?.voice_patterns
ProfileMissing(reply) ==
  reply.error # NULL \/ reply.data = NULL \/ reply.data.voice_patterns = NULL

----------------------------------------------------------------------------
(* POST /polish: V3 (example mode; server.js, and V3.1 alike), V4.1 and V5 *)
(* (pattern mode).  An action is a handler's code from one await to the    *)
(* next.                                                                   *)

PolishVersions == {"V3", "V41", "V5"}

\* pRetry(..., { retries: 3 }): retries after the first attempt.
PRetries == 3

NoResponse == [status |-> 0]

Respond(r, status, body) ==
  [r EXCEPT !.pc = "done", !.res = [status |-> status, body |-> body]]

\* p-retry with one retry more.
ShouldRetry_more(ver, calls) == ver = "V5" /\ calls <= PRetries + 1

\* Whether a rejected completion call is issued again: only under pRetry
\* (V5), while the attempts made do not exceed the retries.
ShouldRetry(ver, calls) == ver = "V5" /\ calls <= PRetries

\* The request bodies and provider outcomes the /polish requests draw from.
RawScripts == {<<>>, <<"a", "b">>}
PolishTopicOutcomes ==
  {Rejected, Text(<<"Tech">>), Text(<<"Other", "\n">>), Text(<<"Cooking">>)}
RewriteOutcomes ==
  {Rejected, NoChoice, NullContent, Text(<<>>), Text(<<" ", "\n">>),
   Text(<<"a">>), Text(<<" ", "a", " ", "b", "\n">>)}

PolishRequest(ver, userId, rawScript) ==
  [kind |-> "polish", ver |-> ver, pc |-> "received",
   userId |-> userId, rawScript |-> rawScript,
   scriptTopic |-> "", relevantExamples |-> <<>>, selected |-> FALSE,
   profile |-> NULL, calls |-> 0, chatCompletion |-> NULL, polishedText |-> NULL,
   history |-> NULL, historyError |-> NULL,
   error |-> "", res |-> NoResponse]

\* The 500 of the catch block: V3 hides the message, V4.1 and V5 append it.
PolishFailed(r, message) ==
  Respond([r EXCEPT !.error = message], 500,
          [error |-> IF r.ver = "V3" THEN "Failed to polish script"
                     ELSE "Failed to polish script: " \o message])

\* The request arrives; its fields are checked; the first await is issued.
\* In V5 the user id comes from the authenticated user, never from the body.
PolishReceive(s) ==
  /\ req[s] = Idle
  /\ \E ver \in PolishVersions, userId \in Users \cup {""},
        rawScript \in RawScripts :
       /\ ver = "V5" => userId # ""
       /\ LET r == PolishRequest(ver, userId, rawScript)
          IN req' = [req EXCEPT ![s] =
               IF rawScript = <<>> \/ userId = ""
               THEN Respond(r, 400,
                      [error |-> IF ver = "V5" THEN "Missing script"
                                 ELSE "Missing script or user ID"])
               ELSE [r EXCEPT !.pc = IF ver = "V3" THEN "classify"
                                     ELSE "profile"]]
  /\ UNCHANGED <<voice_examples, polish_history, profiles, clock,
                 topicCall, selectCall, scoreCall>>

\* The handler that issues the rewrite call as soon as the topic is known,
\* without reading the examples.
PolishClassified_skip(s) ==
  /\ req[s].kind = "polish" /\ req[s].pc = "classify"
  /\ \E c \in PolishTopicOutcomes :
       req' = [req EXCEPT ![s] = [@ EXCEPT
                 !.scriptTopic = analyzeTopicCategory(c),
                 !.pc = "rewrite", !.calls = 1]]
  /\ UNCHANGED <<voice_examples, polish_history, profiles, clock,
                 topicCall, selectCall, scoreCall>>

\* V3 step 1: analyzeTopicCategory(rawScript) returns.
PolishClassified(s) ==
  /\ req[s].kind = "polish" /\ req[s].pc = "classify"
  /\ \E c \in PolishTopicOutcomes :
       req' = [req EXCEPT ![s] = [@ EXCEPT
                 !.scriptTopic = analyzeTopicCategory(c), !.pc = "select"]]
  /\ UNCHANGED <<voice_examples, polish_history, profiles, clock,
                 topicCall, selectCall, scoreCall>>

\* V3 step 2: selectBestExamples(userId, scriptTopic) returns; the prompt is
\* built and the rewrite call issued.
PolishSelected(s) ==
  /\ req[s].kind = "polish" /\ req[s].pc = "select"
  /\ \E reply \in SelectReplies(voice_examples, req[s].userId,
                                 req[s].scriptTopic) :
       req' = [req EXCEPT ![s] = [@ EXCEPT
                 !.relevantExamples = selectBestExamples(reply),
                 !.selected = TRUE, !.pc = "rewrite", !.calls = 1]]
  /\ UNCHANGED <<voice_examples, polish_history, profiles, clock,
                 topicCall, selectCall, scoreCall>>

VoicePatternNotFound ==
  "Voice pattern not found. Please run 'Analyze My Voice' on your profile page."

\* V4.1 / V5 step 1: the profile read returns.
PolishProfileRead(s) ==
  /\ req[s].kind = "polish" /\ req[s].pc = "profile"
  /\ \E reply \in ProfileReplies(profiles, req[s].userId) :
       req' = [req EXCEPT ![s] =
         IF ProfileMissing(reply)
         THEN Respond([@ EXCEPT !.profile = reply], 400,
                      [error |-> VoicePatternNotFound])
         ELSE IF AssembleThrows(@.ver, reply.data.voice_patterns)
         THEN PolishFailed([@ EXCEPT !.profile = reply], "TypeError")
         ELSE [@ EXCEPT !.profile = reply, !.pc = "rewrite", !.calls = 1]]
  /\ UNCHANGED <<voice_examples, polish_history, profiles, clock,
                 topicCall, selectCall, scoreCall>>

\* The handler whose check of the text sits inside the retried function: a
\* completion without text is retried like a rejected call.
PolishRewritten_retryempty(s) ==
  /\ req[s].kind = "polish" /\ req[s].pc = "rewrite"
  /\ \E c \in RewriteOutcomes :
       req' = [req EXCEPT ![s] =
         IF c.kind = "rejected"
         THEN IF ShouldRetry(@.ver, @.calls)
              THEN [@ EXCEPT !.calls = @ + 1]
              ELSE PolishFailed(@, "APIError")
         ELSE IF TrimmedContent(c) = THROWN
         THEN PolishFailed([@ EXCEPT !.chatCompletion = c], "TypeError")
         ELSE IF ~Truthy(TrimmedContent(c))
         THEN IF ShouldRetry(@.ver, @.calls)
              THEN [@ EXCEPT !.calls = @ + 1, !.chatCompletion = c]
              ELSE PolishFailed([@ EXCEPT !.chatCompletion = c,
                                          !.polishedText = TrimmedContent(c)],
                                "No response from AI")
         ELSE [@ EXCEPT !.chatCompletion = c,
                        !.polishedText = TrimmedContent(c),
                        !.pc = "history"]]
  /\ UNCHANGED <<voice_examples, polish_history, profiles, clock,
                 topicCall, selectCall, scoreCall>>

\* The rewrite completion call settles: a rejection is retried under pRetry
\* or fails the request; a completion without text fails it; else the
\* history insert is issued.
PolishRewritten(s) ==
  /\ req[s].kind = "polish" /\ req[s].pc = "rewrite"
  /\ \E c \in RewriteOutcomes :
       req' = [req EXCEPT ![s] =
         IF c.kind = "rejected"
         THEN IF ShouldRetry(@.ver, @.calls)
              THEN [@ EXCEPT !.calls = @ + 1]
              ELSE PolishFailed(@, "APIError")
         ELSE IF TrimmedContent(c) = THROWN
         THEN PolishFailed([@ EXCEPT !.chatCompletion = c], "TypeError")
         ELSE IF ~Truthy(TrimmedContent(c))
         THEN PolishFailed([@ EXCEPT !.chatCompletion = c,
                                     !.polishedText = TrimmedContent(c)],
                           "No response from AI")
         ELSE [@ EXCEPT !.chatCompletion = c,
                        !.polishedText = TrimmedContent(c),
                        !.pc = "history"]]
  /\ UNCHANGED <<voice_examples, polish_history, profiles, clock,
                 topicCall, selectCall, scoreCall>>

\* A new row of polish_history; voice_example_id 0 and an empty
\* user_final_script stand for null.
HistoryRow(userId, rawScript, polishedText) ==
  [user_id |-> userId, raw_script |-> rawScript,
   ai_polished_script |-> polishedText,
   user_final_script |-> <<>>, voice_example_id |-> 0]

\* The handler with a history insert whose error is thrown: the catch block
\* answers 500.
PolishHistoryInserted_fatal(s) ==
  /\ req[s].kind = "polish" /\ req[s].pc = "history"
  /\ \/ /\ polish_history' = Append(polish_history,
              HistoryRow(req[s].userId, req[s].rawScript,
                         req[s].polishedText.s))
        /\ req' = [req EXCEPT ![s] =
             Respond([@ EXCEPT !.history = [id |-> Len(polish_history) + 1]],
                     200, [polishedScript |-> @.polishedText.s,
                           historyId |-> Len(polish_history) + 1])]
     \/ /\ UNCHANGED polish_history
        /\ req' = [req EXCEPT ![s] =
             PolishFailed([@ EXCEPT !.historyError = [message |-> "insert failed"]],
                          "insert failed")]
  /\ UNCHANGED <<voice_examples, profiles, clock,
                 topicCall, selectCall, scoreCall>>

\* The history insert returns, with the new row's id or with an error that
\* is only logged; the response is sent.
PolishHistoryInserted(s) ==
  /\ req[s].kind = "polish" /\ req[s].pc = "history"
  /\ \/ /\ polish_history' = Append(polish_history,
              HistoryRow(req[s].userId, req[s].rawScript,
                         req[s].polishedText.s))
        /\ req' = [req EXCEPT ![s] =
             Respond([@ EXCEPT !.history = [id |-> Len(polish_history) + 1]],
                     200, [polishedScript |-> @.polishedText.s,
                           historyId |-> Len(polish_history) + 1])]
     \/ /\ UNCHANGED polish_history
        /\ req' = [req EXCEPT ![s] =
             Respond([@ EXCEPT !.historyError = [message |-> "insert failed"]],
                     200, [polishedScript |-> @.polishedText.s,
                           historyId |-> 0])]
  /\ UNCHANGED <<voice_examples, profiles, clock,
                 topicCall, selectCall, scoreCall>>

\* The tables a /polish request finds.
PolishExamples ==
  {<<>>,
   <<[user_id |-> "u1", script_text |-> <<"a", "b">>,
      topic_category |-> "Tech", quality_score |-> 40, created_at |-> 1],
     [user_id |-> "u1", script_text |-> <<"b">>,
      topic_category |-> "Finance", quality_score |-> 70, created_at |-> 2]>>}
PolishProfiles ==
  {[u \in Users |-> IF u = "u1" THEN row ELSE ProfileRow(DocA, 1)] :
     row \in {NoRow, ProfileRow(NULL, 0), ProfileRow(DocA, 1),
              ProfileRow(DocPartial, 1), ProfileRow(DocOther, 1)}}

InitPolish ==
  /\ voice_examples \in PolishExamples
  /\ polish_history = <<>>
  /\ profiles \in PolishProfiles
  /\ clock = 2
  /\ NoRequests
  /\ topicCall = NoCall
  /\ selectCall = NoCall
  /\ scoreCall = NoCall

NextPolish ==
  \E s \in Slots :
    \/ PolishReceive(s)
    \/ PolishClassified(s)
    \/ PolishSelected(s)
    \/ PolishProfileRead(s)
    \/ PolishRewritten(s)
    \/ PolishHistoryInserted(s)

SpecPolish == InitPolish /\ [][NextPolish]_vars

PolishSlots == {s \in Slots : req[s].kind = "polish"}

\* C6 as stated: the rewrite completion call is attempted at most 3 times in
\* one rewrite request.
C6_AtMostThreeAttempts ==
  \A s \in PolishSlots : req[s].calls <= 3

\* C6 as amended: the rewrite completion call is attempted at most 4 times
\* in V5 (the first attempt and pRetry's 3 retries) and once in the revisions
\* without pRetry; when every attempt fails the handler answers 500 after
\* the last one; once an attempt has succeeded no further attempt is made.
C6_AtMostFourAttempts ==
  \A s \in PolishSlots :
    LET most == IF req[s].ver = "V5" THEN 4 ELSE 1
    IN /\ req[s].calls <= most
       /\ req[s].error = "APIError" =>
            /\ req[s].calls = most
            /\ req[s].pc = "done" /\ req[s].res.status = 500
            /\ req[s].chatCompletion = NULL
       /\ req[s].chatCompletion # NULL => req[s].pc # "rewrite"
       /\ req[s].pc = "rewrite" => req[s].calls >= 1

\* A V5 request has failed with 500 after its fourth rejected attempt.
C6_Witness ==
  \E s \in PolishSlots :
    /\ req[s].ver = "V5" /\ req[s].calls = 4
    /\ req[s].error = "APIError" /\ req[s].res.status = 500

\* C10: in pattern mode a rewrite request whose profile read fails, or whose
\* user has no stored voice-pattern profile, is answered with the 400 that
\* tells to run voice analysis; it issues no rewrite completion call and no
\* history insert, and every history row was inserted by a request that got
\* past that check.
C10_NoProfileIs400 ==
  /\ \A s \in PolishSlots :
       (/\ req[s].ver \in {"V41", "V5"}
        /\ req[s].profile # NULL
        /\ \/ req[s].profile.error # NULL
           \/ req[s].profile.data = NULL
           \/ req[s].profile.data.voice_patterns = NULL) =>
         /\ req[s].pc = "done"
         /\ req[s].res = [status |-> 400,
                          body |-> [error |-> VoicePatternNotFound]]
         /\ req[s].calls = 0 /\ req[s].chatCompletion = NULL
         /\ req[s].history = NULL /\ req[s].historyError = NULL
  /\ \A i \in DOMAIN polish_history :
       \E s \in PolishSlots : req[s].history = [id |-> i]

\* A V5 request of a user whose profile row holds no voice patterns has been
\* answered with the 400.
C10_Witness ==
  \E s \in PolishSlots :
    /\ req[s].ver = "V5"
    /\ req[s].profile # NULL /\ req[s].profile.error = NULL
    /\ req[s].profile.data.voice_patterns = NULL
    /\ req[s].res.status = 400

\* C11: once the rewrite completion has produced a non-empty polished text,
\* the request never ends in an error: a failed history insert is answered
\* with the success response that carries that polished text and no history
\* id, and it has stored no history row for the request.
C11_HistoryFailureNotFatal ==
  \A s \in PolishSlots :
    /\ (Truthy(req[s].polishedText) /\ req[s].pc = "done") =>
         /\ req[s].res.status = 200
         /\ req[s].res.body.polishedScript = req[s].polishedText.s
         /\ req[s].res.body.polishedScript # <<>>
    /\ req[s].historyError # NULL =>
         /\ Truthy(req[s].polishedText)
         /\ req[s].pc = "done"
         /\ req[s].res.status = 200
         /\ req[s].res.body.historyId = 0
         /\ req[s].history = NULL

\* A V5 request whose history insert failed has been answered with 200 and
\* the polished text, and polish_history holds no row.
C11_Witness ==
  \E s \in PolishSlots :
    /\ req[s].ver = "V5"
    /\ req[s].historyError # NULL
    /\ req[s].res.status = 200
    /\ req[s].res.body.polishedScript = <<"a", " ", "b">>
    /\ polish_history = <<>>

\* The steps of an example-mode rewrite, in the order the handler takes them.
ExampleModeOrder == <<"received", "classify", "select", "rewrite", "history">>

\* C16: an example-mode rewrite request goes from each step to the next one
\* only (a repeated step or the response apart): the selection read is
\* issued when the classification has returned, the rewrite call when the
\* selection has returned, the history insert when a non-empty rewrite has
\* been obtained, and the success response when the history insert has
\* returned; a history row is stored only by a request at its history step.
C16_StepsInOrder ==
  /\ [](\A s \in PolishSlots : req[s].ver = "V3" =>
          /\ req[s].pc \in {"select", "rewrite", "history"}
               => req[s].scriptTopic \in Categories
          /\ req[s].selected => req[s].scriptTopic \in Categories
          /\ req[s].pc \in {"received", "classify", "select"}
               => /\ ~req[s].selected /\ req[s].calls = 0
                  /\ req[s].chatCompletion = NULL
          /\ req[s].calls >= 1 => req[s].selected
          /\ req[s].pc \in {"received", "classify", "select", "rewrite"}
               => /\ req[s].polishedText = NULL
                  /\ req[s].history = NULL /\ req[s].historyError = NULL
          /\ (\/ req[s].pc = "history"
              \/ req[s].history # NULL \/ req[s].historyError # NULL)
               => /\ req[s].calls >= 1 /\ req[s].chatCompletion # NULL
                  /\ Truthy(req[s].polishedText)
          /\ req[s].res.status = 200
               => req[s].history # NULL \/ req[s].historyError # NULL)
  /\ [][/\ \A s \in Slots :
             (/\ req'[s].kind = "polish" /\ req'[s].ver = "V3"
              /\ req[s] # Idle /\ req'[s].pc # req[s].pc) =>
               \/ req'[s].pc = "done"
               \/ \E k \in 1..(Len(ExampleModeOrder) - 1) :
                    /\ req[s].pc = ExampleModeOrder[k]
                    /\ req'[s].pc = ExampleModeOrder[k + 1]
        /\ polish_history' # polish_history =>
             \E s \in PolishSlots :
               /\ req[s].pc = "history" /\ req'[s].pc = "done"
               /\ req'[s].history = [id |-> Len(polish_history')]]_vars

\* An example-mode request that was given stored examples has been answered
\* with the polished text and the id of its history row.
C16_Witness ==
  \E s \in PolishSlots :
    /\ req[s].ver = "V3" /\ req[s].res.status = 200
    /\ req[s].scriptTopic = "Tech"
    /\ req[s].relevantExamples # <<>>
    /\ req[s].history # NULL
    /\ polish_history[req[s].history.id].ai_polished_script
         = req[s].polishedText.s

\* The rewrite call of the request resolved to a completion without text.
EmptyCompletion(r) ==
  /\ r.chatCompletion # NULL
  /\ ~Truthy(TrimmedContent(r.chatCompletion))

\* C17: a request whose rewrite call resolved to a completion without text
\* has ended in the 500 error response and has issued no history insert;
\* the step in which that completion arrived issued no further call and
\* left polish_history as it was; every history row is of a request whose
\* polished text is not empty.
C17_EmptyNeverRetried ==
  /\ [](/\ \A s \in PolishSlots :
             EmptyCompletion(req[s]) =>
               /\ req[s].pc = "done" /\ req[s].res.status = 500
               /\ req[s].history = NULL /\ req[s].historyError = NULL
        /\ \A i \in DOMAIN polish_history :
             \E s \in PolishSlots :
               /\ req[s].history = [id |-> i]
               /\ Truthy(req[s].polishedText)
               /\ polish_history[i].ai_polished_script = req[s].polishedText.s)
  /\ [][\A s \in Slots :
          (/\ req[s].kind = "polish" /\ req[s].pc = "rewrite"
           /\ EmptyCompletion(req'[s])) =>
            /\ req'[s].pc = "done"
            /\ req'[s].calls = req[s].calls
            /\ polish_history' = polish_history]_vars

\* A V5 request whose second attempt resolved to white space only has been
\* answered with 500 after those two calls, with no history row stored.
C17_Witness ==
  \E s \in PolishSlots :
    /\ req[s].ver = "V5" /\ req[s].calls = 2
    /\ req[s].chatCompletion = Text(<<" ", "\n">>)
    /\ req[s].error = "No response from AI"
    /\ req[s].res.status = 500
    /\ polish_history = <<>>

----------------------------------------------------------------------------
(* JSON texts: what JSON.parse makes of the extraction completion.         *)

SectionOrder ==
  <<"openings", "transitions", "sentence_structure", "emphasis_techniques",
    "vocabulary", "pacing", "conclusions", "personality_markers">>

RECURSIVE MembersText(_, _)
\* "key":"value" for the keys of SectionOrder from the i-th on that obj has.
MembersText(obj, i) ==
  IF i > Len(SectionOrder) THEN ""
  ELSE LET k == SectionOrder[i]
           rest == MembersText(obj, i + 1)
       IN IF k \notin DOMAIN obj THEN rest
          ELSE "\"" \o k \o "\":\"" \o obj[k] \o "\""
                 \o (IF rest = "" THEN "" ELSE ",") \o rest

\* The JSON text of a value of JsonValues.
JsonText(v) ==
  IF v = NULL THEN "null"
  ELSE IF "voice_patterns" \in DOMAIN v
  THEN "{\"voice_patterns\":{" \o MembersText(v.voice_patterns, 1) \o "}}"
  ELSE "{\"note\":\"" \o v.note \o "\"}"

\* The values the model's JSON texts denote.
JsonValues == {DocA, DocB, DocPartial, DocOther, NULL}

\* A parser that turns what it cannot parse into an object.
JsonParse_lenient(t) ==
  IF \E v \in JsonValues : JsonText(v) = Str(t)
  THEN CHOOSE v \in JsonValues : JsonText(v) = Str(t)
  ELSE DocOther

\* JSON.parse of a trimmed text: the value, or THROWN (a SyntaxError).
JsonParse(t) ==
  IF \E v \in JsonValues : JsonText(v) = Str(t)
  THEN CHOOSE v \in JsonValues : JsonText(v) = Str(t)
  ELSE THROWN

\* The extraction completions the provider may return.
ExtractionTexts ==
  {<<>>, <<"\n", " ">>,
   <<"Here are the patterns:", " ", JsonText(DocB)>>,
   <<"{\"voice_patterns\":{\"openings\":">>,
   <<JsonText(DocB), "\n", JsonText(DocB)>>,
   <<JsonText(DocB)>>, <<" ", JsonText(DocB), "\n">>,
   <<JsonText(DocPartial)>>, <<JsonText(DocOther)>>, <<"null">>}
ExtractionOutcomes ==
  {Rejected, NoChoice, NullContent} \cup {Text(t) : t \in ExtractionTexts}

----------------------------------------------------------------------------
(* POST /analyze-voice: V4.1 and V5.                                       *)

AnalyzeVersions == {"V41", "V5"}

RECURSIVE NewestFirst(_, _)
\* The rows ids of table by created_at descending, ties in any order.
NewestFirst(table, ids) ==
  IF ids = {} THEN {<<>>}
  ELSE UNION {
    {<<i>> \o t : t \in NewestFirst(table, ids \ {i})} :
      i \in {k \in ids :
               \A j \in ids : table[j].created_at <= table[k].created_at}}

\* .from('voice_examples').select('script_text').eq('user_id', userId)
\*   .order('created_at', { ascending: false })
ExamplesReplies(table, userId) ==
  {[error |-> [message |-> "retrieval failed"], data |-> <<>>]}
    \cup {[error |-> NULL,
           data |-> [k \in DOMAIN r |-> [script_text |-> table[r[k]].script_text]]] :
             r \in NewestFirst(table,
                    {i \in DOMAIN table : table[i].user_id = userId})}

AnalyzeRequest(ver, userId) ==
  [kind |-> "analyze", ver |-> ver, pc |-> "received", userId |-> userId,
   examples |-> NULL, calls |-> 0, chatCompletion |-> NULL,
   patternsText |-> NULL, voicePatterns |-> NULL, parsed |-> FALSE,
   stamp |-> 0, update |-> "none", error |-> "", res |-> NoResponse]

\* The 500 of the catch block.
AnalyzeFailed(r, message) ==
  Respond([r EXCEPT !.error = message], 500,
          [error |-> "Failed to extract voice patterns"])

\* The request arrives; V4.1 takes the user id from the body, V5 from the
\* authenticated user; the read of the user's examples is issued.
AnalyzeReceive(s) ==
  /\ req[s] = Idle
  /\ \E ver \in AnalyzeVersions, userId \in Users \cup {""} :
       /\ ver = "V5" => userId # ""
       /\ req' = [req EXCEPT ![s] =
            IF userId = ""
            THEN Respond(AnalyzeRequest(ver, userId), 400,
                         [error |-> "User ID is required"])
            ELSE [AnalyzeRequest(ver, userId) EXCEPT !.pc = "examples"]]
  /\ UNCHANGED <<voice_examples, polish_history, profiles, clock,
                 topicCall, selectCall, scoreCall>>

\* The examples read returns: an error is thrown, fewer than 2 examples are
\* answered with 400, else the extraction call is issued.
AnalyzeExamplesRead(s) ==
  /\ req[s].kind = "analyze" /\ req[s].pc = "examples"
  /\ \E reply \in ExamplesReplies(voice_examples, req[s].userId) :
       req' = [req EXCEPT ![s] =
         IF reply.error # NULL
         THEN AnalyzeFailed([@ EXCEPT !.examples = reply], "examplesError")
         ELSE IF Len(reply.data) < 2
         THEN Respond([@ EXCEPT !.examples = reply], 400,
                [error |-> "Need at least 2 saved examples to analyze a voice."])
         ELSE [@ EXCEPT !.examples = reply, !.pc = "extract", !.calls = 1]]
  /\ UNCHANGED <<voice_examples, polish_history, profiles, clock,
                 topicCall, selectCall, scoreCall>>

\* The extraction call settles: a rejection is retried under pRetry (V5) or
\* fails the request; a completion without text, or with text JSON.parse
\* rejects, fails it; else the profile update is issued, stamped with the
\* current time.
AnalyzeExtracted(s) ==
  /\ req[s].kind = "analyze" /\ req[s].pc = "extract"
  /\ \E c \in ExtractionOutcomes :
       req' = [req EXCEPT ![s] =
         IF c.kind = "rejected"
         THEN IF ShouldRetry(@.ver, @.calls)
              THEN [@ EXCEPT !.calls = @ + 1]
              ELSE AnalyzeFailed(@, "APIError")
         ELSE IF TrimmedContent(c) = THROWN
         THEN AnalyzeFailed([@ EXCEPT !.chatCompletion = c], "TypeError")
         ELSE IF ~Truthy(TrimmedContent(c))
         THEN AnalyzeFailed([@ EXCEPT !.chatCompletion = c,
                                      !.patternsText = TrimmedContent(c)],
                            "AI did not return patterns")
         ELSE IF JsonParse(TrimmedContent(c).s) = THROWN
         THEN AnalyzeFailed([@ EXCEPT !.chatCompletion = c,
                                      !.patternsText = TrimmedContent(c)],
                            "SyntaxError")
         ELSE [@ EXCEPT !.chatCompletion = c,
                        !.patternsText = TrimmedContent(c),
                        !.voicePatterns = JsonParse(TrimmedContent(c).s),
                        !.parsed = TRUE,
                        !.stamp = clock, !.update = "issued",
                        !.pc = "update"]]
  /\ clock' = IF req'[s].pc = "update" THEN clock + 1 ELSE clock
  /\ UNCHANGED <<voice_examples, polish_history, profiles,
                 topicCall, selectCall, scoreCall>>

\* The profile update returns.  It replaces voice_patterns and
\* patterns_extracted_at of the user's row (of no row when there is none);
\* an error is thrown and nothing is written.
AnalyzeUpdated(s) ==
  /\ req[s].kind = "analyze" /\ req[s].pc = "update"
  /\ \/ /\ profiles' = [profiles EXCEPT ![req[s].userId] =
              IF @ = NoRow THEN @
              ELSE ProfileRow(req[s].voicePatterns, req[s].stamp)]
        /\ req' = [req EXCEPT ![s] =
             Respond([@ EXCEPT !.update = "ok"], 200,
                     [message |-> "Voice patterns extracted successfully",
                      patterns |-> @.voicePatterns])]
     \/ /\ UNCHANGED profiles
        /\ req' = [req EXCEPT ![s] =
             AnalyzeFailed([@ EXCEPT !.update = "error"], "updateError")]
  /\ UNCHANGED <<voice_examples, polish_history, clock,
                 topicCall, selectCall, scoreCall>>

\* The tables an /analyze-voice request finds.
AnalyzeExamples ==
  {<<>>,
   <<[user_id |-> "u1", script_text |-> <<"a", "b">>,
      topic_category |-> "Tech", quality_score |-> 40, created_at |-> 1],
     [user_id |-> "u2", script_text |-> <<"a">>,
      topic_category |-> "Other", quality_score |-> 100, created_at |-> 1],
     [user_id |-> "u1", script_text |-> <<"b">>,
      topic_category |-> "Finance", quality_score |-> 70, created_at |-> 1]>>}
AnalyzeProfiles ==
  {[u \in Users |-> IF u = "u1" THEN row ELSE ProfileRow(DocA, 1)] :
     row \in {NoRow, ProfileRow(NULL, 0), ProfileRow(DocA, 1)}}

InitAnalyze ==
  /\ voice_examples \in AnalyzeExamples
  /\ polish_history = <<>>
  /\ profiles \in AnalyzeProfiles
  /\ clock = 2
  /\ NoRequests
  /\ topicCall = NoCall
  /\ selectCall = NoCall
  /\ scoreCall = NoCall

NextAnalyze ==
  \E s \in Slots :
    \/ AnalyzeReceive(s)
    \/ AnalyzeExamplesRead(s)
    \/ AnalyzeExtracted(s)
    \/ AnalyzeUpdated(s)

SpecAnalyze == InitAnalyze /\ [][NextAnalyze]_vars

AnalyzeSlots == {s \in Slots : req[s].kind = "analyze"}

\* C7 as stated: one analyze-voice request issues exactly one extraction
\* completion call, never a second one.
C7_ExactlyOneCall ==
  \A s \in AnalyzeSlots :
    /\ req[s].calls <= 1
    /\ req[s].pc \in {"extract", "update"} => req[s].calls = 1

\* C7 as amended: a request that reaches the extraction issues the call once
\* in V4.1 and at most 4 times in V5 (pRetry: the first attempt and 3
\* retries); the call is never issued again after it has succeeded; after
\* the last failed attempt the request ends in a 500 and has issued no
\* profile update.
C7_AtMostFourCalls ==
  \A s \in AnalyzeSlots :
    LET most == IF req[s].ver = "V5" THEN 4 ELSE 1
    IN /\ req[s].calls <= most
       /\ req[s].pc \in {"extract", "update"} => req[s].calls >= 1
       /\ req[s].chatCompletion # NULL => req[s].pc # "extract"
       /\ req[s].error = "APIError" =>
            /\ req[s].calls = most
            /\ req[s].pc = "done" /\ req[s].res.status = 500
            /\ req[s].update = "none" /\ req[s].chatCompletion = NULL

\* A V5 request has failed with 500 after its fourth rejected extraction
\* call, without a profile update.
C7_Witness ==
  \E s \in AnalyzeSlots :
    /\ req[s].ver = "V5" /\ req[s].calls = 4
    /\ req[s].error = "APIError" /\ req[s].res.status = 500
    /\ req[s].update = "none"

\* The extraction returned text that is empty or that is no JSON text.
Malformed(r) ==
  /\ r.chatCompletion # NULL
  /\ r.chatCompletion.kind = "text"
  /\ \/ Trim(r.chatCompletion.content) = <<>>
     \/ \A v \in JsonValues : JsonText(v) # Str(Trim(r.chatCompletion.content))

\* C8: a request whose extraction returned empty or unparseable text has
\* failed with 500 without issuing a profile update, and the step in which
\* it got that text left the profiles table (voice patterns and extraction
\* timestamps, rows absent included) as it was.
C8_MalformedKeepsProfile ==
  /\ [](\A s \in AnalyzeSlots :
          Malformed(req[s]) =>
            /\ req[s].pc = "done" /\ req[s].res.status = 500
            /\ req[s].update = "none" /\ req[s].voicePatterns = NULL)
  /\ [][\A s \in Slots :
          (req'[s] # req[s] /\ req'[s].kind = "analyze" /\ Malformed(req'[s]))
            => profiles' = profiles]_vars

\* A request of a user with a stored profile has failed on text that is no
\* JSON, and the profile is the stored one.
C8_Witness ==
  \E s \in AnalyzeSlots :
    /\ Malformed(req[s])
    /\ Trim(req[s].chatCompletion.content) # <<>>
    /\ req[s].res.status = 500
    /\ profiles[req[s].userId] = ProfileRow(DocA, 1)

\* C9: every profile analyze-voice persists holds the eight mandatory
\* sections; valid JSON lacking one is rejected and not persisted.
C9_PersistedHasEightSections ==
  /\ \A u \in Users :
       (profiles[u] # NoRow /\ profiles[u].voice_patterns # NULL) =>
         /\ "voice_patterns" \in DOMAIN profiles[u].voice_patterns
         /\ Sections \subseteq DOMAIN profiles[u].voice_patterns.voice_patterns
  /\ \A s \in AnalyzeSlots :
       (req[s].pc = "done" /\ req[s].parsed /\ req[s].voicePatterns # NULL
          /\ ~(/\ "voice_patterns" \in DOMAIN req[s].voicePatterns
               /\ Sections \subseteq DOMAIN req[s].voicePatterns.voice_patterns))
         => req[s].res.status = 500 /\ req[s].update = "none"

----------------------------------------------------------------------------
(* POST /save-correction.  V3, V3.1 and V4.1 share one handler (the user   *)
(* id comes from the body, the response carries the new example's id,      *)
(* score and topic); V5 takes the user id from the authenticated user and  *)
(* answers with a message only.                                            *)

CorrectionVersions == {"V3", "V5"}

RECURSIVE WordCount(_)
\* userFinalScript.split(' ').length: one more than the number of spaces.
WordCount(t) ==
  IF t = <<>> THEN 1
  ELSE (IF Head(t) = " " THEN 1 ELSE 0) + WordCount(Tail(t))

\* The row .insert({...}) adds to voice_examples; created_at is the
\* database's default, the time of the insert.
ExampleRow(userId, userFinalScript, topic, score, at) ==
  [user_id |-> userId, script_text |-> userFinalScript,
   topic_category |-> topic, quality_score |-> score,
   word_count |-> WordCount(userFinalScript), created_at |-> at]

\* An insert that writes over the newest row.
InsertExample_overwrite(table, row) ==
  IF table = <<>> THEN <<row>> ELSE [table EXCEPT ![Len(table)] = row]

\* .from('voice_examples').insert(row): the table with the row added; its
\* id is its position.
InsertExample(table, row) == Append(table, row)

\* The filter on the record id alone.
HistoryMatches_idonly(table, i, historyId, userId) == i = historyId

\* The filter on the owner alone.
HistoryMatches_owneronly(table, i, historyId, userId) ==
  table[i].user_id = userId

\* .eq('id', historyId).eq('user_id', userId)
HistoryMatches(table, i, historyId, userId) ==
  i = historyId /\ table[i].user_id = userId

\* .from('polish_history').update({user_final_script, voice_example_id})
\* on the rows that pass the filter: all other rows stay as they are.
UpdateHistory(table, historyId, userId, userFinalScript, exampleId) ==
  [i \in DOMAIN table |->
     IF HistoryMatches(table, i, historyId, userId)
     THEN [table[i] EXCEPT !.user_final_script = userFinalScript,
                           !.voice_example_id = exampleId]
     ELSE table[i]]

CorrectionRequest(ver, userId, historyId, aiPolishedScript, userFinalScript) ==
  [kind |-> "correction", ver |-> ver, pc |-> "received",
   userId |-> userId, historyId |-> historyId,
   aiPolishedScript |-> aiPolishedScript,
   userFinalScript |-> userFinalScript,
   qualityScore |-> -1, topic |-> "",
   example |-> NULL, exampleError |-> NULL, update |-> "none",
   error |-> "", res |-> NoResponse]

\* The 500 of the catch block.
CorrectionFailed(r, message) ==
  Respond([r EXCEPT !.error = message], 500,
          [error |-> "Failed to save correction"])

\* The body of the success response.
CorrectionBody(r) ==
  IF r.ver = "V5" THEN [message |-> "Learning saved successfully"]
  ELSE [message |-> "Learning saved successfully",
        newExampleId |-> r.example.id,
        newQualityScore |-> r.qualityScore,
        newTopic |-> r.topic]

\* The request bodies and provider outcomes the corrections draw from:
\* history id 0 and the empty script stand for a missing field, history id
\* 3 is the id of no record.
CorrectionHistoryIds == 0..3
CorrectionAiScripts == {<<>>, Rep("a", 11)}
CorrectionFinalScripts ==
  {<<>>, Rep("a", 11), Rep("a", 5) \o <<" ">> \o Rep("a", 5)}
CorrectionTopicOutcomes == {Rejected, Text(<<"Tech">>)}

\* The request arrives; a missing field is answered with 400; the score is
\* computed and analyzeTopicCategory(userFinalScript) is called.
CorrectionReceive(s) ==
  /\ req[s] = Idle
  /\ \E ver \in CorrectionVersions, userId \in Users \cup {""},
        historyId \in CorrectionHistoryIds,
        aiPolishedScript \in CorrectionAiScripts,
        userFinalScript \in CorrectionFinalScripts :
       /\ ver = "V5" => userId # ""
       /\ LET r == CorrectionRequest(ver, userId, historyId,
                                     aiPolishedScript, userFinalScript)
          IN req' = [req EXCEPT ![s] =
               IF \/ userId = "" \/ historyId = 0
                  \/ aiPolishedScript = <<>> \/ userFinalScript = <<>>
               THEN Respond(r, 400, [error |-> "Missing data for learning"])
               ELSE [r EXCEPT
                       !.qualityScore =
                          qualityScore(aiPolishedScript, userFinalScript),
                       !.pc = "classify"]]
  /\ UNCHANGED <<voice_examples, polish_history, profiles, clock,
                 topicCall, selectCall, scoreCall>>

\* analyzeTopicCategory(userFinalScript) returns; the example insert is
\* issued.
CorrectionClassified(s) ==
  /\ req[s].kind = "correction" /\ req[s].pc = "classify"
  /\ \E c \in CorrectionTopicOutcomes :
       req' = [req EXCEPT ![s] = [@ EXCEPT
                 !.topic = analyzeTopicCategory(c), !.pc = "insert"]]
  /\ UNCHANGED <<voice_examples, polish_history, profiles, clock,
                 topicCall, selectCall, scoreCall>>

\* The handler with an example insert whose error is only logged.
CorrectionExampleInserted_logged(s) ==
  /\ req[s].kind = "correction" /\ req[s].pc = "insert"
  /\ \/ /\ voice_examples' = InsertExample(voice_examples,
              ExampleRow(req[s].userId, req[s].userFinalScript,
                         req[s].topic, req[s].qualityScore, clock))
        /\ req' = [req EXCEPT ![s] = [@ EXCEPT
                     !.example = [id |-> Len(voice_examples) + 1],
                     !.pc = "update"]]
     \/ /\ UNCHANGED voice_examples
        /\ req' = [req EXCEPT ![s] =
             Respond([@ EXCEPT !.exampleError = [message |-> "insert failed"]],
                     200, [message |-> "Learning saved successfully"])]
  /\ UNCHANGED <<polish_history, profiles, clock,
                 topicCall, selectCall, scoreCall>>

\* The example insert returns: with the new row's id, and the history
\* update is issued; or with an error, which is thrown.
CorrectionExampleInserted(s) ==
  /\ req[s].kind = "correction" /\ req[s].pc = "insert"
  /\ \/ /\ voice_examples' = InsertExample(voice_examples,
              ExampleRow(req[s].userId, req[s].userFinalScript,
                         req[s].topic, req[s].qualityScore, clock))
        /\ req' = [req EXCEPT ![s] = [@ EXCEPT
                     !.example = [id |-> Len(voice_examples) + 1],
                     !.pc = "update"]]
     \/ /\ UNCHANGED voice_examples
        /\ req' = [req EXCEPT ![s] =
             CorrectionFailed(
               [@ EXCEPT !.exampleError = [message |-> "insert failed"]],
               "exampleError")]
  /\ UNCHANGED <<polish_history, profiles, clock,
                 topicCall, selectCall, scoreCall>>

\* The history update with an error that is thrown.
CorrectionHistoryUpdated_fatal(s) ==
  /\ req[s].kind = "correction" /\ req[s].pc = "update"
  /\ \/ /\ polish_history' =
             UpdateHistory(polish_history, req[s].historyId, req[s].userId,
                           req[s].userFinalScript, req[s].example.id)
        /\ req' = [req EXCEPT ![s] =
             Respond([@ EXCEPT !.update = "ok"], 200, CorrectionBody(@))]
     \/ /\ UNCHANGED polish_history
        /\ req' = [req EXCEPT ![s] =
             CorrectionFailed([@ EXCEPT !.update = "error"], "updateError")]
  /\ UNCHANGED <<voice_examples, profiles, clock,
                 topicCall, selectCall, scoreCall>>

\* The history update returns; its result is not looked at (an error
\* included) and the success response is sent.
CorrectionHistoryUpdated(s) ==
  /\ req[s].kind = "correction" /\ req[s].pc = "update"
  /\ \/ /\ polish_history' =
             UpdateHistory(polish_history, req[s].historyId, req[s].userId,
                           req[s].userFinalScript, req[s].example.id)
        /\ req' = [req EXCEPT ![s] =
             Respond([@ EXCEPT !.update = "ok"], 200, CorrectionBody(@))]
     \/ /\ UNCHANGED polish_history
        /\ req' = [req EXCEPT ![s] =
             Respond([@ EXCEPT !.update = "error"], 200, CorrectionBody(@))]
  /\ UNCHANGED <<voice_examples, profiles, clock,
                 topicCall, selectCall, scoreCall>>

\* The tables a /save-correction request finds: one stored example, and one
\* history record of each user, not yet corrected.
CorrectionExamples ==
  <<ExampleRow("u1", <<"b">>, "Finance", 70, 1)>>
CorrectionHistory ==
  <<HistoryRow("u1", <<"a", "b">>, Rep("a", 11)),
    HistoryRow("u2", <<"a", "b">>, <<"a">>)>>

InitCorrection ==
  /\ voice_examples = CorrectionExamples
  /\ polish_history = CorrectionHistory
  /\ profiles = [u \in Users |-> NoRow]
  /\ clock = 2
  /\ NoRequests
  /\ topicCall = NoCall
  /\ selectCall = NoCall
  /\ scoreCall = NoCall

NextCorrection ==
  \E s \in Slots :
    \/ CorrectionReceive(s)
    \/ CorrectionClassified(s)
    \/ CorrectionExampleInserted(s)
    \/ CorrectionHistoryUpdated(s)

SpecCorrection == InitCorrection /\ [][NextCorrection]_vars

CorrectionSlots == {s \in Slots : req[s].kind = "correction"}

\* The history record the request names, when it is one of the requester's.
OwnRecord(r) ==
  /\ r.historyId \in DOMAIN polish_history
  /\ polish_history[r.historyId].user_id = r.userId

\* C12: a correction whose example insert failed has ended in the 500 error
\* response without storing an example and without issuing the history
\* update; the step in which the insert failed left both tables as they
\* were; and every history record that carries a final text or an example
\* link got them from a request whose insert succeeded.
C12_InsertFailureIsFatal ==
  /\ [](/\ \A s \in CorrectionSlots :
             req[s].exampleError # NULL =>
               /\ req[s].pc = "done"
               /\ req[s].res = [status |-> 500,
                                body |-> [error |-> "Failed to save correction"]]
               /\ req[s].example = NULL /\ req[s].update = "none"
        /\ \A i \in DOMAIN polish_history :
             (\/ polish_history[i].voice_example_id # 0
              \/ polish_history[i].user_final_script # <<>>) =>
               \E s \in CorrectionSlots :
                 /\ req[s].exampleError = NULL /\ req[s].example # NULL
                 /\ req[s].update = "ok" /\ req[s].historyId = i)
  /\ [][\A s \in Slots :
          (/\ req[s].kind = "correction" /\ req[s].pc = "insert"
           /\ req'[s].exampleError # NULL) =>
            /\ polish_history' = polish_history
            /\ voice_examples' = voice_examples]_vars

\* A correction of the requester's own, uncorrected record has failed on its
\* insert with 500, and the record is still uncorrected.
C12_Witness ==
  \E s \in CorrectionSlots :
    /\ req[s].exampleError # NULL
    /\ req[s].res.status = 500
    /\ OwnRecord(req[s])
    /\ polish_history[req[s].historyId].user_final_script = <<>>
    /\ polish_history[req[s].historyId].voice_example_id = 0

\* C13: a history record is created with no final text and no example link,
\* and once a correction has attached them no later step of a correction
\* changes them.
C13_AmendedAtMostOnce ==
  /\ \A u \in Users : /\ HistoryRow(u, <<"a">>, <<"a">>).user_final_script = <<>>
                      /\ HistoryRow(u, <<"a">>, <<"a">>).voice_example_id = 0
  /\ [][\A i \in DOMAIN polish_history :
          polish_history[i].voice_example_id # 0 =>
            /\ polish_history'[i].voice_example_id
                 = polish_history[i].voice_example_id
            /\ polish_history'[i].user_final_script
                 = polish_history[i].user_final_script]_vars

\* C14: a step changes a history record only when it is the history update
\* of a correction whose historyId is the record's id and whose user is the
\* record's owner; it changes nothing but the record's final text and
\* example link, and no record is added or removed.  So every record that
\* carries a final text or a link got them from a request of its owner.
C14_OnlyOwnRecordUpdated ==
  /\ [][/\ DOMAIN polish_history' = DOMAIN polish_history
        /\ \A i \in DOMAIN polish_history :
             polish_history'[i] # polish_history[i] =>
               /\ \E s \in CorrectionSlots :
                    /\ req[s].pc = "update" /\ req'[s].pc = "done"
                    /\ req[s].historyId = i
                    /\ req[s].userId = polish_history[i].user_id
                    /\ polish_history'[i] =
                         [polish_history[i] EXCEPT
                            !.user_final_script = req[s].userFinalScript,
                            !.voice_example_id = req[s].example.id]]_vars
  /\ [](\A i \in DOMAIN polish_history :
          (\/ polish_history[i].voice_example_id # 0
           \/ polish_history[i].user_final_script # <<>>) =>
            \E s \in CorrectionSlots :
              /\ req[s].userId = polish_history[i].user_id
              /\ req[s].historyId = i /\ req[s].update = "ok")

\* A correction by u2 that named the record of u1 has run its history
\* update, and the record of u1 is as it was created.
C14_Witness ==
  \E s \in CorrectionSlots :
    /\ req[s].userId = "u2" /\ req[s].historyId = 1
    /\ req[s].update = "ok" /\ req[s].pc = "done"
    /\ polish_history[1] = CorrectionHistory[1]
    /\ polish_history[1].user_id = "u1"

\* C15: every successful correction response carries the new example's id,
\* the quality score and the topic, equal to the id, quality_score and
\* topic_category of the example the request stored.
C15_ResponseCarriesExample ==
  \A s \in CorrectionSlots :
    (req[s].pc = "done" /\ req[s].res.status = 200) =>
      /\ {"newExampleId", "newQualityScore", "newTopic"}
           \subseteq DOMAIN req[s].res.body
      /\ req[s].res.body.newExampleId = req[s].example.id
      /\ req[s].res.body.newExampleId \in DOMAIN voice_examples
      /\ LET stored == voice_examples[req[s].res.body.newExampleId]
         IN /\ stored.user_id = req[s].userId
            /\ stored.script_text = req[s].userFinalScript
            /\ stored.quality_score = req[s].res.body.newQualityScore
            /\ stored.topic_category = req[s].res.body.newTopic

\* The example the request stored is in the table, as the request wrote it.
ExampleStored(r) ==
  /\ r.example # NULL
  /\ r.example.id \in DOMAIN voice_examples
  /\ voice_examples[r.example.id].user_id = r.userId
  /\ voice_examples[r.example.id].script_text = r.userFinalScript
  /\ voice_examples[r.example.id].topic_category = r.topic
  /\ voice_examples[r.example.id].quality_score = r.qualityScore

\* C18: a correction whose history update failed after its example insert
\* had succeeded is answered with the success response, its example is
\* stored, and no history record links to that example; the step in which
\* the update failed left both tables as they were.
C18_UpdateFailureNotFatal ==
  /\ [](\A s \in CorrectionSlots :
          req[s].update = "error" =>
            /\ req[s].pc = "done" /\ req[s].res.status = 200
            /\ req[s].res.body.message = "Learning saved successfully"
            /\ req[s].exampleError = NULL
            /\ ExampleStored(req[s])
            /\ \A i \in DOMAIN polish_history :
                 polish_history[i].voice_example_id # req[s].example.id)
  /\ [][\A s \in Slots :
          (/\ req[s].kind = "correction" /\ req[s].pc = "update"
           /\ req'[s].update = "error") =>
            /\ polish_history' = polish_history
            /\ voice_examples' = voice_examples]_vars

\* A correction of the requester's own record has been answered with 200
\* although its history update failed; the record has no final text and no
\* link.
C18_Witness ==
  \E s \in CorrectionSlots :
    /\ req[s].update = "error" /\ req[s].res.status = 200
    /\ OwnRecord(req[s])
    /\ ExampleStored(req[s])
    /\ polish_history[req[s].historyId].user_final_script = <<>>
    /\ polish_history[req[s].historyId].voice_example_id = 0

\* The requests whose example insert has succeeded.
Inserted == {s \in CorrectionSlots : req[s].example # NULL}

\* C19: under every interleaving of corrections, a step changes
\* voice_examples only by appending the one row of a request whose insert
\* returns, made of that request's user, final text, topic and score; the
\* rows stored before stay as they are; the requests whose insert succeeded
\* hold distinct ids, each finds its own row under its id, and the table has
\* grown by exactly their number.
C19_ExamplesAppendOnly ==
  /\ [](/\ \A s \in Inserted : ExampleStored(req[s])
        /\ \A s, t \in Inserted : s # t => req[s].example.id # req[t].example.id
        /\ Len(voice_examples) = Len(CorrectionExamples) + Cardinality(Inserted)
        /\ \A i \in DOMAIN CorrectionExamples :
             voice_examples[i] = CorrectionExamples[i])
  /\ [][voice_examples' # voice_examples =>
          \E s \in CorrectionSlots :
            /\ req[s].pc = "insert" /\ req'[s].pc = "update"
            /\ req[s].example = NULL
            /\ req'[s].example = [id |-> Len(voice_examples) + 1]
            /\ voice_examples' =
                 Append(voice_examples,
                        ExampleRow(req[s].userId, req[s].userFinalScript,
                                   req[s].topic, req[s].qualityScore, clock))
            /\ \A t \in Slots \ {s} : req'[t] = req[t]]_vars

\* Two corrections of u1 with different final texts are both between their
\* insert and their history update, and the table holds both new rows.
C19_Witness ==
  /\ \A s \in Slots :
       /\ req[s].kind = "correction" /\ req[s].userId = "u1"
       /\ req[s].pc = "update"
  /\ req["r1"].userFinalScript # req["r2"].userFinalScript
  /\ req["r1"].example.id = 3 /\ req["r2"].example.id = 2
  /\ Len(voice_examples) = 3
  /\ voice_examples[3].script_text = req["r1"].userFinalScript
  /\ voice_examples[2].script_text = req["r2"].userFinalScript

\* C20: a correction with all its fields whose historyId names no record of
\* the requester is not refused for that: when it has ended, either its
\* example insert failed, or its example is stored, the response is the
\* success response and no history record links to the example; and its
\* history update changes no history record.
C20_UnmatchedStillStores ==
  /\ [](\A s \in CorrectionSlots :
          (req[s].pc = "done" /\ req[s].res.status # 400
             /\ ~OwnRecord(req[s])) =>
            \/ req[s].exampleError # NULL /\ req[s].res.status = 500
            \/ /\ req[s].res.status = 200
               /\ ExampleStored(req[s])
               /\ \A i \in DOMAIN polish_history :
                    polish_history[i].voice_example_id # req[s].example.id)
  /\ [][\A s \in Slots :
          (/\ req[s].kind = "correction" /\ req[s].pc = "update"
           /\ req'[s].pc = "done" /\ ~OwnRecord(req[s])) =>
            polish_history' = polish_history]_vars

\* A correction of u1 that named the id of no record has been answered with
\* 200 after its history update returned without error; its example is
\* stored, no history record links to it, and the records are as created.
C20_Witness ==
  \E s \in CorrectionSlots :
    /\ req[s].userId = "u1" /\ req[s].historyId = 3
    /\ req[s].historyId \notin DOMAIN polish_history
    /\ req[s].update = "ok" /\ req[s].res.status = 200
    /\ ExampleStored(req[s])
    /\ \A i \in DOMAIN polish_history :
         polish_history[i].voice_example_id # req[s].example.id
    /\ polish_history = CorrectionHistory

====
